---- MODULE Spec2Model ----
(***************************************************************************)
(* Usage aggregation and threshold alerting engine of the prepaid energy   *)
(* meter back end: reading ingestion, period summaries, the balance        *)
(* ledger fed by payments, and the post_save alert evaluators.             *)
(*                                                                         *)
(* Units.  Money (balance, amount, cost, low_balance_threshold) is held in *)
(* hundredths (DecimalField decimal_places=2); energy_kwh and power_kw in  *)
(* thousandths (decimal_places=3); usage_threshold in hundredths.          *)
(* A timestamp is a number of hours since day 0 and its date is the day.   *)
(***************************************************************************)
EXTENDS Integers, Sequences, FiniteSets, TLC

\* ---------------------------------------------------------------- bounds
MaxReadings == 2
MaxPayments == 2
MaxNotifications == 4
MaxSummaries == 2

\* ------------------------------------------------------ program constants
DefaultBalance == 0
DefaultLowBalanceThreshold == 1000
DefaultUsageThreshold == 500
MaxAmount == 100000
ENERGY_RATE_PER_KWH == 2000

\* ------------------------------------------------------------ input sets
Users == {1, 2}
Dates == {1, 2}
Timestamps == {d * 24 + 23 : d \in Dates}
Energies == {4999, 5000, 5001}
Powers == {1000, 2001}
Samples == {<<4999, 1000>>, <<5001, 2001>>}
Amounts == {0, 100, 900}
\* amounts the admin add form takes: Payment.amount carries no validator
AdminAmounts == Amounts \cup {-100}
PeriodTypes == {"daily", "weekly"}
\* generate requests <<user, period_type, start_date, end_date>>: three keys
\* that differ in user or period type, two end dates of one key, and a range
\* that ends before it starts.
Requests ==
    {<<1, "daily", 1, 1>>, <<1, "daily", 1, 2>>, <<1, "weekly", 1, 2>>,
     <<2, "daily", 1, 2>>, <<1, "daily", 2, 1>>}

\* time of the chart requests, in hours: noon of day 31
Nows == {756}
\* reading timestamps around it: thirty days, seven days and 24 hours before
\* it, the instant itself and one hour after it
ChartTimestamps == {36, 588, 732, 756, 757}
\* the charts read the energy only: one sample, with a third decimal
ChartSamples == {<<4999, 1000>>}

\* rates the deployment is configured with over time: 2.00, 5.00 and 20.00
\* per kWh
Rates == {200, 500, ENERGY_RATE_PER_KWH}
\* energies of the cost specification: none, one and three thousandths, 2.5
\* and the threshold
CostEnergies == {0, 1, 3, 2500, 5000}
\* energy_kwh and power_kw of a POST /readings/ payload, <<>> for a field
\* that is left out: a negative and a positive value of each
PostEnergies == {<<>>, <<-1000>>, <<5000>>}
PostPowers == {<<-1000>>, <<1000>>}
\* usage thresholds after a profile update of user 1: 4.00 and the default
UsageThresholds == [u \in Users |-> IF u = 1 THEN 400
                                    ELSE DefaultUsageThreshold]
\* times at which an alert is marked read
ReadTimes == {1, 2}

\* -------------------------------------------------------------- helpers
RECURSIVE SumOver(_, _)
SumOver(f, S) ==
    IF S = {} THEN 0
    ELSE LET x == CHOOSE y \in S : TRUE IN f[x] + SumOver(f, S \ {x})

MaxOver(f, S) == CHOOSE m \in {f[x] : x \in S} : \A x \in S : f[x] <= m

\* Decimal.quantize under the default context (ROUND_HALF_EVEN), n >= 0.
Quantize(n, d) ==
    LET q == n \div d
        r == n % d
    IN IF 2 * r > d \/ (2 * r = d /\ q % 2 = 1) THEN q + 1 ELSE q

\* timestamp__date
DateOf(ts) == ts \div 24

\* float(DecimalField): both payload numbers expressed in thousandths.
FloatOfMilli(x) == x
FloatOfCenti(x) == x * 10

\* The six tables and the last response, then the requests in flight: credit
\* holds the payment confirmations being handled and calls the generate calls
\* being handled, each with the objects its handler has loaded so far.
VARIABLES users, readings, payments, notifications, summaries, resp,
          credit, calls, methods, saves

vars == <<users, readings, payments, notifications, summaries, resp,
          credit, calls, methods, saves>>

CreditWorkers == {1, 2}
GenWorkers == {1, 2}

IdleCredit == [pc |-> "idle", kind |-> "none", pay |-> 0, inst |-> <<>>,
               user |-> <<>>]
IdleCall == [pc |-> "idle", req |-> <<>>, stats |-> <<>>, readAt |-> 0,
             missed |-> FALSE, status |-> 0]

\* methods is the table of saved payment methods and saves the calls of
\* PaymentMethod.save being handled, each with the instance it is saving
\* (id 0 for an instance that has no row yet).
MaxMethods == 2
MethodWorkers == {1, 2}
IdleSave == [pc |-> "idle", id |-> 0, inst |-> <<>>]

\* ----------------------------------------------------------------- User
\* email stands for the user's own address, unique to the user
NewUser(lba, ua) ==
    [email |-> "user@example.com",
     notifications_enabled |-> TRUE,
     balance |-> DefaultBalance,
     low_balance_alert |-> lba,
     usage_alert |-> ua,
     low_balance_threshold |-> DefaultLowBalanceThreshold,
     usage_threshold |-> DefaultUsageThreshold]

\* User.update_balance: the instance's balance plus amount, then saved.
update_balance(user, amount) == user.balance + amount

\* ---------------------------------------------------------- Notification
\* Notification.objects.create(user, notification_type, ..., data): the other
\* columns take their defaults; read_at is <<>> for None and <<t>> for a time.
NewNotification(u, t, d) ==
    [user |-> u, notification_type |-> t, data |-> d,
     is_read |-> FALSE, read_at |-> <<>>,
     email_sent |-> FALSE, sms_sent |-> FALSE, push_sent |-> FALSE]

mark_as_read_always(n, now) ==
    [n EXCEPT !.is_read = TRUE, !.read_at = <<now>>]

\* Notification.mark_as_read at time now: the row as it is saved, or the row
\* untouched when it is read already.
mark_as_read(n, now) ==
    IF ~n.is_read
    THEN [n EXCEPT !.is_read = TRUE, !.read_at = <<now>>]
    ELSE n

\* POST /notifications/{i}/mark_read/ by user u: get_object finds the row
\* among the user's own rows or answers 404.
MarkRead(u, i, now) ==
    /\ i \in 1..Len(notifications)
    /\ IF notifications[i].user = u
       THEN /\ notifications' =
                  [notifications EXCEPT ![i] = mark_as_read(@, now)]
            /\ resp' = [op |-> "mark_read", status |-> 200,
                        req |-> <<u, i, now>>]
       ELSE /\ resp' = [op |-> "mark_read", status |-> 404,
                        req |-> <<u, i, now>>]
            /\ UNCHANGED notifications
    /\ UNCHANGED <<users, readings, payments, summaries, credit, calls,
                   methods, saves>>

\* PATCH /notifications/{i}/ by user u with is_read in the body: the
\* serializer writes the fields that are not read-only and saves the row.
NotificationUpdate(u, i, is_read) ==
    /\ i \in 1..Len(notifications)
    /\ IF notifications[i].user = u
       THEN /\ notifications' =
                  [notifications EXCEPT ![i].is_read = is_read]
            /\ resp' = [op |-> "notification_update", status |-> 200,
                        req |-> <<u, i>>, is_read |-> is_read]
       ELSE /\ resp' = [op |-> "notification_update", status |-> 404,
                        req |-> <<u, i>>, is_read |-> is_read]
            /\ UNCHANGED notifications
    /\ UNCHANGED <<users, readings, payments, summaries, credit, calls,
                   methods, saves>>

\* POST /notifications/mark_all_read/ by user u
MarkAllRead(u, now) ==
    LET Q == {i \in 1..Len(notifications) :
                 notifications[i].user = u /\ ~notifications[i].is_read}
    IN /\ notifications' =
             [i \in 1..Len(notifications) |->
                 IF i \in Q THEN mark_as_read(notifications[i], now)
                 ELSE notifications[i]]
       /\ resp' = [op |-> "mark_all_read", status |-> 200,
                   req |-> <<u, now>>, count |-> Cardinality(Q)]
       /\ UNCHANGED <<users, readings, payments, summaries, credit, calls,
                      methods, saves>>

\* NotificationAdmin.mark_as_unread on a queryset holding the row i
AdminMarkAsUnread(i) ==
    /\ i \in 1..Len(notifications)
    /\ notifications' = [notifications EXCEPT ![i].is_read = FALSE,
                                              ![i].read_at = <<>>]
    /\ resp' = [op |-> "admin_mark_as_unread", status |-> 200]
    /\ UNCHANGED <<users, readings, payments, summaries, credit, calls,
                   methods, saves>>

clear_all_any_user(notifs, u) ==
    LET Keep(n) == ~n.is_read
        rest == SelectSeq(notifs, Keep)
    IN [notifications |-> rest, count |-> Len(notifs) - Len(rest)]

\* get_queryset().filter(is_read=True).delete(): the table without the read
\* rows of user u, and the number of rows deleted.
clear_all(notifs, u) ==
    LET Keep(n) == ~(n.user = u /\ n.is_read)
        rest == SelectSeq(notifs, Keep)
    IN [notifications |-> rest, count |-> Len(notifs) - Len(rest)]

\* POST /notifications/clear_all/ by user u
ClearAll(u) ==
    LET out == clear_all(notifications, u)
    IN /\ notifications' = out.notifications
       /\ resp' = [op |-> "clear_all", status |-> 200, req |-> <<u>>,
                   count |-> out.count]
       /\ UNCHANGED <<users, readings, payments, summaries, credit, calls,
                      methods, saves>>

send_email_forgets(n, user, ok) ==
    IF ~n.email_sent /\ user.email # "" /\ user.notifications_enabled
    THEN [row |-> n, transport |-> 1, delivered |-> ok, raised |-> FALSE]
    ELSE [row |-> n, transport |-> 0, delivered |-> FALSE, raised |-> FALSE]

send_email_optimistic(n, user, ok) ==
    IF ~n.email_sent /\ user.email # "" /\ user.notifications_enabled
    THEN [row |-> [n EXCEPT !.email_sent = TRUE], transport |-> 1,
          delivered |-> ok, raised |-> FALSE]
    ELSE [row |-> n, transport |-> 0, delivered |-> FALSE, raised |-> FALSE]

send_email_unconditional(n, user, ok) ==
    IF ~n.email_sent
    THEN IF ok
         THEN [row |-> [n EXCEPT !.email_sent = TRUE], transport |-> 1,
               delivered |-> TRUE, raised |-> FALSE]
         ELSE [row |-> n, transport |-> 1, delivered |-> FALSE,
               raised |-> FALSE]
    ELSE [row |-> n, transport |-> 0, delivered |-> FALSE, raised |-> FALSE]

\* Notification.send_email with the transport's outcome ok: the row as it is
\* left, the number of send_mail calls, whether the mail went out and whether
\* an exception reaches the caller (the except clause prints and returns).
send_email(n, user, ok) ==
    IF ~n.email_sent /\ user.email # "" /\ user.notifications_enabled
    THEN IF ok
         THEN [row |-> [n EXCEPT !.email_sent = TRUE], transport |-> 1,
               delivered |-> TRUE, raised |-> FALSE]
         ELSE [row |-> n, transport |-> 1, delivered |-> FALSE,
               raised |-> FALSE]
    ELSE [row |-> n, transport |-> 0, delivered |-> FALSE, raised |-> FALSE]

\* NotificationAdmin.send_email_notification on the selected rows S, ok[i]
\* being the outcome the transport has for row i: send_email runs on the
\* rows of S with email_sent false and count is their number.
AdminSendEmail(S, ok) ==
    /\ S \subseteq 1..Len(notifications)
    /\ LET Q == {i \in S : ~notifications[i].email_sent}
           out == [i \in Q |->
                      send_email(notifications[i],
                                 users[notifications[i].user], ok[i])]
       IN /\ notifications' =
                [i \in 1..Len(notifications) |->
                    IF i \in Q THEN out[i].row ELSE notifications[i]]
          /\ resp' = [op |-> "admin_send_email", status |-> 200,
                      req |-> S, count |-> Cardinality(Q),
                      transport |-> [i \in S |-> IF i \in Q
                                                 THEN out[i].transport ELSE 0],
                      delivered |-> {i \in Q : out[i].delivered},
                      failed |-> {i \in Q : out[i].transport > 0
                                            /\ ~out[i].delivered},
                      raised |-> \E i \in Q : out[i].raised]
    /\ UNCHANGED <<users, readings, payments, summaries, credit, calls,
                   methods, saves>>

\* -------------------------------------------------------- EnergyReading
\* EnergyReading.save under the configured rate: cost derived when the
\* instance's cost is falsy (None or zero); cost is <<>> for None and <<c>>
\* for a value.  The product is quantized to two places when it is written
\* to the cost column.
ReadingCostAt(cost, energy, rate) ==
    IF cost = <<>> \/ cost[1] = 0
    THEN Quantize(energy * rate, 1000)
    ELSE cost[1]

ReadingCost(cost, energy) == ReadingCostAt(cost, energy, ENERGY_RATE_PER_KWH)

check_usage_alerts_strict(notifs, created, id, reading, user) ==
    IF created /\ user.usage_alert
       /\ reading.energy_kwh > user.usage_threshold * 10
    THEN Append(notifs,
                NewNotification(reading.user, "high_usage",
                    [reading_id |-> id,
                     energy_kwh |-> FloatOfMilli(reading.energy_kwh),
                     threshold |-> FloatOfCenti(user.usage_threshold)]))
    ELSE notifs

\* post_save receiver of EnergyReading.
check_usage_alerts(notifs, created, id, reading, user) ==
    IF created /\ user.usage_alert
       /\ reading.energy_kwh >= user.usage_threshold * 10
    THEN Append(notifs,
                NewNotification(reading.user, "high_usage",
                    [reading_id |-> id,
                     energy_kwh |-> FloatOfMilli(reading.energy_kwh),
                     threshold |-> FloatOfCenti(user.usage_threshold)]))
    ELSE notifs

ReadingCreateAt_shared(u, ts, e, p, rate) ==
    /\ Len(readings) < MaxReadings
    /\ LET id == Len(readings) + 1
           r == [user |-> u, timestamp |-> ts, energy_kwh |-> e,
                 power_kw |-> p, cost |-> ReadingCostAt(<<>>, e, rate)]
       IN /\ readings' = Append(readings, r)
          /\ notifications' =
                check_usage_alerts(notifications, TRUE, id, r,
                                   users[CHOOSE v \in DOMAIN users : TRUE])
    /\ resp' = [op |-> "reading_create", status |-> 201,
                req |-> <<u, ts, e, p, rate>>]
    /\ UNCHANGED <<users, payments, summaries, credit, calls, methods, saves>>

\* POST /readings/ while the configured rate is rate:
\* EnergyReadingCreateSerializer.create, save, post_save.
ReadingCreateAt(u, ts, e, p, rate) ==
    /\ Len(readings) < MaxReadings
    /\ LET id == Len(readings) + 1
           r == [user |-> u, timestamp |-> ts, energy_kwh |-> e,
                 power_kw |-> p, cost |-> ReadingCostAt(<<>>, e, rate)]
       IN /\ readings' = Append(readings, r)
          /\ notifications' =
                check_usage_alerts(notifications, TRUE, id, r, users[u])
    /\ resp' = [op |-> "reading_create", status |-> 201,
                req |-> <<u, ts, e, p, rate>>]
    /\ UNCHANGED <<users, payments, summaries, credit, calls, methods, saves>>

ReadingCreate(u, ts, e, p) ==
    ReadingCreateAt(u, ts, e, p, ENERGY_RATE_PER_KWH)

\* EnergyReadingCreateSerializer.is_valid on a payload of thousandths: the
\* two model fields are required and carry no validator on their sign.
reading_is_valid(e, p) == e # <<>> /\ p # <<>>

\* POST /readings/ with the payload fields e and p: perform_create after
\* is_valid(raise_exception=True), or the 400 response.
ReadingPost(u, ts, e, p) ==
    IF reading_is_valid(e, p)
    THEN ReadingCreate(u, ts, e[1], p[1])
    ELSE /\ resp' = [op |-> "reading_create", status |-> 400,
                     req |-> <<u, ts, e, p>>]
         /\ UNCHANGED <<users, readings, payments, notifications, summaries,
                        credit, calls, methods, saves>>

\* PATCH /readings/{id}/ while the configured rate is rate: the stored
\* reading saved again with the energy e.
ReadingUpdateAt(id, e, rate) ==
    /\ id \in 1..Len(readings)
    /\ LET old == readings[id]
           r == [old EXCEPT !.energy_kwh = e,
                            !.cost = ReadingCostAt(<<old.cost>>, e, rate)]
       IN /\ readings' = [readings EXCEPT ![id] = r]
          /\ notifications' =
                check_usage_alerts(notifications, FALSE, id, r, users[r.user])
    /\ resp' = [op |-> "reading_update", status |-> 200]
    /\ UNCHANGED <<users, payments, summaries, credit, calls, methods, saves>>

ReadingUpdate(id, e) == ReadingUpdateAt(id, e, ENERGY_RATE_PER_KWH)

\* -------------------------------------------------------------- Payment
check_balance_alerts_once(notifs, payment, user) ==
    IF payment.status = "success" /\ user.low_balance_alert
       /\ user.balance <= user.low_balance_threshold
       /\ \A i \in 1..Len(notifs) :
             ~(notifs[i].user = payment.user
               /\ notifs[i].notification_type = "low_balance")
    THEN Append(notifs,
                NewNotification(payment.user, "low_balance",
                    [balance |-> FloatOfCenti(user.balance),
                     threshold |-> FloatOfCenti(user.low_balance_threshold)]))
    ELSE notifs

\* post_save receiver of Payment; user is the instance's cached user object.
check_balance_alerts(notifs, payment, user) ==
    IF payment.status = "success" /\ user.low_balance_alert
       /\ user.balance <= user.low_balance_threshold
    THEN Append(notifs,
                NewNotification(payment.user, "low_balance",
                    [balance |-> FloatOfCenti(user.balance),
                     threshold |-> FloatOfCenti(user.low_balance_threshold)]))
    ELSE notifs

PaymentSuccessNotification(id, payment) ==
    NewNotification(payment.user, "payment_success",
                    [payment_id |-> id])

\* Payment.mark_as_success run to completion on the stored payment id; the
\* result is the new contents of the three tables it writes.
mark_as_success(pays, usrs, notifs, id) ==
    IF pays[id].status # "success"
    THEN LET p == [pays[id] EXCEPT !.status = "success", !.completed = TRUE]
             u == usrs[p.user]
             n1 == check_balance_alerts(notifs, p, u)
             b == update_balance(u, p.amount)
         IN [payments |-> [pays EXCEPT ![id] = p],
             users |-> [usrs EXCEPT ![p.user].balance = b],
             notifications |-> Append(n1, PaymentSuccessNotification(id, p))]
    ELSE [payments |-> pays, users |-> usrs, notifications |-> notifs]

\* PaymentCreateSerializer.validate_amount
validate_amount(value) == value > 0 /\ value <= MaxAmount

NewPayment(u, amount, st) ==
    [user |-> u, amount |-> amount, status |-> st, completed |-> FALSE]

\* POST /payments/ : validate, create pending, save processing, mark_as_success.
PaymentCreate(u, amount) ==
    /\ Len(payments) < MaxPayments
    /\ IF validate_amount(amount)
       THEN LET id == Len(payments) + 1
                p0 == NewPayment(u, amount, "pending")
                n0 == check_balance_alerts(notifications, p0, users[u])
                p1 == [p0 EXCEPT !.status = "processing"]
                n1 == check_balance_alerts(n0, p1, users[u])
                out == mark_as_success(Append(payments, p1), users, n1, id)
            IN /\ payments' = out.payments
               /\ users' = out.users
               /\ notifications' = out.notifications
               /\ resp' = [op |-> "payment_create", status |-> 201]
       ELSE /\ resp' = [op |-> "payment_create", status |-> 400]
            /\ UNCHANGED <<payments, users, notifications>>
    /\ UNCHANGED <<readings, summaries, credit, calls, methods, saves>>

\* Admin add form of PaymentAdmin: a pending payment is stored.
PaymentAdminAdd(u, amount) ==
    /\ Len(payments) < MaxPayments
    /\ LET id == Len(payments) + 1
           p0 == NewPayment(u, amount, "pending")
       IN /\ payments' = Append(payments, p0)
          /\ notifications' = check_balance_alerts(notifications, p0, users[u])
    /\ resp' = [op |-> "payment_admin_add", status |-> 200]
    /\ UNCHANGED <<users, readings, summaries, credit, calls, methods, saves>>

\* PaymentAdmin.mark_as_success on a queryset holding the payment id.
PaymentAdminMarkAsSuccess(id) ==
    /\ id \in 1..Len(payments)
    /\ payments[id].status \in {"pending", "processing"}
    /\ LET out == mark_as_success(payments, users, notifications, id)
       IN /\ payments' = out.payments
          /\ users' = out.users
          /\ notifications' = out.notifications
    /\ resp' = [op |-> "payment_admin_success", status |-> 200]
    /\ UNCHANGED <<readings, summaries, credit, calls, methods, saves>>

\* PATCH /payments/{id}/ with a new description: the stored payment is saved.
PaymentUpdate(id) ==
    /\ id \in 1..Len(payments)
    /\ Len(notifications) < MaxNotifications
    /\ notifications' =
          check_balance_alerts(notifications, payments[id],
                               users[payments[id].user])
    /\ resp' = [op |-> "payment_update", status |-> 200]
    /\ UNCHANGED <<users, readings, payments, summaries, credit, calls,
                   methods, saves>>

\* Payment.mark_as_failed run to completion on the stored payment id: the
\* status is failed whatever it was, the save runs the post_save receiver and
\* a payment_failed notification is stored.
mark_as_failed(pays, usrs, notifs, id) ==
    LET p == [pays[id] EXCEPT !.status = "failed"]
        n1 == check_balance_alerts(notifs, p, usrs[p.user])
    IN [payments |-> [pays EXCEPT ![id] = p],
        notifications |->
           Append(n1, NewNotification(p.user, "payment_failed",
                    [payment_id |-> id]))]

\* PaymentAdmin.mark_as_failed on a queryset holding the payment id.
PaymentAdminMarkAsFailed(id) ==
    /\ id \in 1..Len(payments)
    /\ payments[id].status \in {"pending", "processing"}
    /\ LET out == mark_as_failed(payments, users, notifications, id)
       IN /\ payments' = out.payments
          /\ notifications' = out.notifications
    /\ resp' = [op |-> "payment_admin_failed", status |-> 200]
    /\ UNCHANGED <<users, readings, summaries, credit, calls, methods, saves>>

\* Each Payment.STATUS_CHOICES value
STATUS_CHOICES == {"pending", "processing", "success", "failed", "cancelled",
                   "refunded"}

\* Admin change form of PaymentAdmin: status is an editable field, the form
\* writes it and saves the payment, which runs the post_save receiver.
PaymentAdminChange(id, st) ==
    /\ id \in 1..Len(payments)
    /\ Len(notifications) < MaxNotifications
    /\ LET p == [payments[id] EXCEPT !.status = st]
       IN /\ payments' = [payments EXCEPT ![id] = p]
          /\ notifications' =
                check_balance_alerts(notifications, p, users[p.user])
    /\ resp' = [op |-> "payment_admin_change", status |-> 200,
                req |-> <<id>>]
    /\ UNCHANGED <<users, readings, summaries, credit, calls, methods, saves>>

\* cancel without the status test
PaymentCancel_any(id) ==
    /\ id \in 1..Len(payments)
    /\ LET p == [payments[id] EXCEPT !.status = "cancelled"]
       IN /\ payments' = [payments EXCEPT ![id] = p]
          /\ notifications' =
                check_balance_alerts(notifications, p, users[p.user])
          /\ resp' = [op |-> "payment_cancel", status |-> 200,
                      req |-> <<id>>]
    /\ UNCHANGED <<users, readings, summaries, credit, calls, methods, saves>>

\* POST /payments/{id}/cancel/
PaymentCancel(id) ==
    /\ id \in 1..Len(payments)
    /\ IF payments[id].status \in {"pending", "processing"}
       THEN LET p == [payments[id] EXCEPT !.status = "cancelled"]
            IN /\ payments' = [payments EXCEPT ![id] = p]
               /\ notifications' =
                     check_balance_alerts(notifications, p, users[p.user])
               /\ resp' = [op |-> "payment_cancel", status |-> 200,
                           req |-> <<id>>]
       ELSE /\ resp' = [op |-> "payment_cancel", status |-> 400,
                        req |-> <<id>>]
            /\ UNCHANGED <<payments, notifications>>
    /\ UNCHANGED <<users, readings, summaries, credit, calls, methods, saves>>

\* ------------------------------------- payment confirmations in flight
\* Each step is one statement of the handler against the database; what the
\* handler holds between steps (its Payment instance inst and the User object
\* cached on it) is in credit[w].

\* PaymentViewSet.create, authentication: request.user is loaded.
ViewAuth(w, u, amount) ==
    /\ credit[w].pc = "idle"
    /\ credit' = [credit EXCEPT ![w] =
                     [pc |-> "create", kind |-> "view", pay |-> 0,
                      inst |-> <<NewPayment(u, amount, "pending")>>,
                      user |-> <<users[u]>>]]
    /\ UNCHANGED <<users, readings, payments, notifications, summaries, resp,
                   calls, methods, saves>>

\* PaymentViewSet.create, is_valid and serializer.save: the pending payment
\* is inserted, or the request ends with 400.
ViewCreate(w) ==
    /\ credit[w].pc = "create"
    /\ IF validate_amount(credit[w].inst[1].amount)
       THEN /\ Len(payments) < MaxPayments
            /\ payments' = Append(payments, credit[w].inst[1])
            /\ notifications' =
                  check_balance_alerts(notifications, credit[w].inst[1],
                                       credit[w].user[1])
            /\ credit' = [credit EXCEPT ![w].pc = "processing",
                                        ![w].pay = Len(payments) + 1]
            /\ UNCHANGED resp
       ELSE /\ credit' = [credit EXCEPT ![w].pc = "done"]
            /\ resp' = [op |-> "payment_create", status |-> 400]
            /\ UNCHANGED <<payments, notifications>>
    /\ UNCHANGED <<users, readings, summaries, calls, methods, saves>>

\* PaymentViewSet.create: status processing, payment.save().
ViewProcessing(w) ==
    /\ credit[w].pc = "processing"
    /\ LET p == [credit[w].inst[1] EXCEPT !.status = "processing"]
       IN /\ payments' = [payments EXCEPT ![credit[w].pay] = p]
          /\ notifications' =
                check_balance_alerts(notifications, p, credit[w].user[1])
          /\ credit' = [credit EXCEPT ![w].pc = "mark", ![w].inst = <<p>>]
    /\ UNCHANGED <<users, readings, summaries, resp, calls, methods, saves>>

\* PaymentAdmin.mark_as_success: a pending or processing payment of the
\* queryset that no other request is handling is loaded.
AdminLoad(w, id) ==
    /\ credit[w].pc = "idle"
    /\ id \in 1..Len(payments)
    /\ payments[id].status \in {"pending", "processing"}
    /\ \A v \in CreditWorkers : credit[v].pay # id
    /\ credit' = [credit EXCEPT ![w] =
                     [pc |-> "mark", kind |-> "admin", pay |-> id,
                      inst |-> <<payments[id]>>, user |-> <<>>]]
    /\ UNCHANGED <<users, readings, payments, notifications, summaries, resp,
                   calls, methods, saves>>

\* Payment.mark_as_success up to self.save(): the guard on the instance's
\* status, the write of the payment row, and the post_save receiver, which
\* loads instance.user when the instance has none cached.
MarkSave(w) ==
    /\ credit[w].pc = "mark"
    /\ IF credit[w].inst[1].status # "success"
       THEN LET p == [credit[w].inst[1] EXCEPT !.status = "success",
                                               !.completed = TRUE]
                u == IF credit[w].user = <<>> THEN users[p.user]
                     ELSE credit[w].user[1]
            IN /\ payments' = [payments EXCEPT ![credit[w].pay] = p]
               /\ notifications' = check_balance_alerts(notifications, p, u)
               /\ credit' = [credit EXCEPT ![w].pc = "credit",
                                           ![w].inst = <<p>>,
                                           ![w].user = <<u>>]
       ELSE /\ credit' = [credit EXCEPT ![w].pc = "done"]
            /\ UNCHANGED <<payments, notifications>>
    /\ UNCHANGED <<users, readings, summaries, resp, calls, methods, saves>>

\* User.update_balance on the cached user object: the sum is taken on the
\* object and save(update_fields=['balance']) writes it.
CreditBalance(w) ==
    /\ credit[w].pc = "credit"
    /\ LET b == update_balance(credit[w].user[1], credit[w].inst[1].amount)
       IN /\ users' = [users EXCEPT ![credit[w].inst[1].user].balance = b]
          /\ credit' = [credit EXCEPT ![w].pc = "notify",
                                      ![w].user = <<[credit[w].user[1]
                                                     EXCEPT !.balance = b]>>]
    /\ UNCHANGED <<readings, payments, notifications, summaries, resp, calls,
                   methods, saves>>

\* Payment.mark_as_success: the payment_success notification.
NotifySuccess(w) ==
    /\ credit[w].pc = "notify"
    /\ notifications' =
          Append(notifications,
                 PaymentSuccessNotification(credit[w].pay, credit[w].inst[1]))
    /\ credit' = [credit EXCEPT ![w].pc = "done"]
    /\ resp' = [op |-> IF credit[w].kind = "view" THEN "payment_create"
                       ELSE "payment_admin_success",
                status |-> IF credit[w].kind = "view" THEN 201 ELSE 200]
    /\ UNCHANGED <<users, readings, payments, summaries, calls,
                   methods, saves>>

\* PaymentAdmin.mark_as_success: the queryset is filtered on the status the
\* rows have when it is evaluated, and the loop holds the instances loaded
\* then; other requests may hold the same payment.
AdminSelect(w, id) ==
    /\ credit[w].pc = "idle"
    /\ id \in 1..Len(payments)
    /\ payments[id].status \in {"pending", "processing"}
    /\ credit' = [credit EXCEPT ![w] =
                     [pc |-> "mark", kind |-> "admin", pay |-> id,
                      inst |-> <<payments[id]>>, user |-> <<>>]]
    /\ UNCHANGED <<users, readings, payments, notifications, summaries, resp,
                   calls, methods, saves>>

\* PaymentAdmin.mark_as_failed: the same filter, the instance is loaded.
AdminSelectFailed(w, id) ==
    /\ credit[w].pc = "idle"
    /\ id \in 1..Len(payments)
    /\ payments[id].status \in {"pending", "processing"}
    /\ credit' = [credit EXCEPT ![w] =
                     [pc |-> "fail", kind |-> "failed", pay |-> id,
                      inst |-> <<payments[id]>>, user |-> <<>>]]
    /\ UNCHANGED <<users, readings, payments, notifications, summaries, resp,
                   calls, methods, saves>>

\* Payment.mark_as_failed up to self.save(): the instance, with the status
\* failed, is written over the stored row, and the post_save receiver runs.
FailSave(w) ==
    /\ credit[w].pc = "fail"
    /\ LET p == [credit[w].inst[1] EXCEPT !.status = "failed"]
       IN /\ payments' = [payments EXCEPT ![credit[w].pay] = p]
          /\ notifications' =
                check_balance_alerts(notifications, p, users[p.user])
          /\ credit' = [credit EXCEPT ![w].pc = "failnote", ![w].inst = <<p>>]
    /\ UNCHANGED <<users, readings, summaries, resp, calls, methods, saves>>

\* Payment.mark_as_failed: the payment_failed notification.
NotifyFailed(w) ==
    /\ credit[w].pc = "failnote"
    /\ notifications' =
          Append(notifications,
                 NewNotification(credit[w].inst[1].user, "payment_failed",
                                 [payment_id |-> credit[w].pay]))
    /\ credit' = [credit EXCEPT ![w].pc = "done"]
    /\ resp' = [op |-> "payment_admin_failed", status |-> 200]
    /\ UNCHANGED <<users, readings, payments, summaries, calls,
                   methods, saves>>

\* PaymentViewSet.cancel, get_object: the payment is loaded.
CancelLoad(w, id) ==
    /\ credit[w].pc = "idle"
    /\ id \in 1..Len(payments)
    /\ credit' = [credit EXCEPT ![w] =
                     [pc |-> "cancel", kind |-> "cancel", pay |-> id,
                      inst |-> <<payments[id]>>, user |-> <<>>]]
    /\ UNCHANGED <<users, readings, payments, notifications, summaries, resp,
                   calls, methods, saves>>

\* PaymentViewSet.cancel on the loaded instance: the status test, then the
\* save of the instance with the status cancelled.
CancelSave(w) ==
    /\ credit[w].pc = "cancel"
    /\ IF credit[w].inst[1].status \in {"pending", "processing"}
       THEN LET p == [credit[w].inst[1] EXCEPT !.status = "cancelled"]
            IN /\ payments' = [payments EXCEPT ![credit[w].pay] = p]
               /\ notifications' =
                     check_balance_alerts(notifications, p, users[p.user])
               /\ resp' = [op |-> "payment_cancel", status |-> 200]
       ELSE /\ resp' = [op |-> "payment_cancel", status |-> 400]
            /\ UNCHANGED <<payments, notifications>>
    /\ credit' = [credit EXCEPT ![w].pc = "done"]
    /\ UNCHANGED <<users, readings, summaries, calls, methods, saves>>

\* ---------------------------------------------------------- chart_data
Digit == <<"0", "1", "2", "3", "4", "5", "6", "7", "8", "9">>

\* f"{n:02d}" for 0 <= n <= 99
TwoDigits(n) == Digit[(n \div 10) + 1] \o Digit[(n % 10) + 1]

\* date.strftime('%a'); day 0 is Thursday 1 January 1970
WeekDays == <<"Thu", "Fri", "Sat", "Sun", "Mon", "Tue", "Wed">>

MonthLengths == <<31, 28, 31, 30, 31, 30, 31, 31, 30, 31, 30, 31>>

\* month and day of the month of day d of 1970, counted from month m
RECURSIVE MonthDay(_, _)
MonthDay(d, m) ==
    IF d < MonthLengths[m] THEN <<m, d + 1>>
    ELSE MonthDay(d - MonthLengths[m], m + 1)

\* date.strftime('%m/%d')
MonthDayLabel(date) ==
    TwoDigits(MonthDay(date, 1)[1]) \o "/" \o TwoDigits(MonthDay(date, 1)[2])

\* round(d, 2) of a float given in thousandths, as hundredths.  A sum that
\* ends in 5 thousandths goes the way its binary float lies; no sum of the
\* Samples ends so.
Round2(x) == Quantize(x, 10)

\* sum(daily_data.get(day, [0])) over the rows B, in thousandths
BucketSum(rds, B) == SumOver([i \in B |-> FloatOfMilli(rds[i].energy_kwh)], B)

BucketDate_shifted(now, n, k) == DateOf(now) - (n - k) - 1

\* now.date() - timedelta(days=n-1-i) for i = k - 1 in range(n)
BucketDate(now, n, k) == DateOf(now) - (n - k)

\* The k-th daily bucket of the week and month branches: the sum over the
\* user's readings dated from n days before now that fall on its date.
DailyBucket(rds, u, now, n, k) ==
    Round2(BucketSum(rds,
              {i \in 1..Len(rds) :
                  /\ rds[i].user = u
                  /\ DateOf(rds[i].timestamp) >= DateOf(now) - n
                  /\ DateOf(rds[i].timestamp) = BucketDate(now, n, k)}))

chart_data_lenient(rds, u, period, now) ==
    IF period = "week"
    THEN [status |-> 200,
          labels |-> [k \in 1..7 |-> WeekDays[(BucketDate(now, 7, k) % 7) + 1]],
          data |-> [k \in 1..7 |-> DailyBucket(rds, u, now, 7, k)]]
    ELSE IF period = "month"
    THEN [status |-> 200,
          labels |-> [k \in 1..30 |-> MonthDayLabel(BucketDate(now, 30, k))],
          data |-> [k \in 1..30 |-> DailyBucket(rds, u, now, 30, k)]]
    ELSE LET R == {i \in 1..Len(rds) :
                      rds[i].user = u /\ rds[i].timestamp >= now - 24}
         IN [status |-> 200,
             labels |-> [h \in 1..24 |-> TwoDigits(h - 1) \o ":00"],
             data |-> [h \in 1..24 |->
                         Round2(BucketSum(rds, {i \in R :
                                   rds[i].timestamp % 24 = h - 1}))]]

\* EnergyReadingViewSet.chart_data: the status, the labels and the data of
\* the one dataset, the data in hundredths.
chart_data(rds, u, period, now) ==
    IF period = "day"
    THEN LET R == {i \in 1..Len(rds) :
                      rds[i].user = u /\ rds[i].timestamp >= now - 24}
         IN [status |-> 200,
             labels |-> [h \in 1..24 |-> TwoDigits(h - 1) \o ":00"],
             data |-> [h \in 1..24 |->
                         Round2(BucketSum(rds, {i \in R :
                                   rds[i].timestamp % 24 = h - 1}))]]
    ELSE IF period = "week"
    THEN [status |-> 200,
          labels |-> [k \in 1..7 |-> WeekDays[(BucketDate(now, 7, k) % 7) + 1]],
          data |-> [k \in 1..7 |-> DailyBucket(rds, u, now, 7, k)]]
    ELSE IF period = "month"
    THEN [status |-> 200,
          labels |-> [k \in 1..30 |-> MonthDayLabel(BucketDate(now, 30, k))],
          data |-> [k \in 1..30 |-> DailyBucket(rds, u, now, 30, k)]]
    ELSE [status |-> 400, labels |-> <<>>, data |-> <<>>]

\* GET /readings/chart_data/?period=
ChartData(u, period, now) ==
    LET c == chart_data(readings, u, period, now)
    IN /\ resp' = [op |-> "chart_data", status |-> c.status,
                   req |-> <<u, period, now>>,
                   labels |-> c.labels, data |-> c.data]
       /\ UNCHANGED <<users, readings, payments, notifications, summaries,
                      credit, calls, methods, saves>>

\* --------------------------------------------------------- UsageSummary
Matching_any_user(rds, u, start, end) ==
    {i \in 1..Len(rds) :
        /\ DateOf(rds[i].timestamp) >= start
        /\ DateOf(rds[i].timestamp) <= end}

\* EnergyReading.objects.filter(user, timestamp__date__gte, timestamp__date__lte)
Matching(rds, u, start, end) ==
    {i \in 1..Len(rds) :
        /\ rds[i].user = u
        /\ DateOf(rds[i].timestamp) >= start
        /\ DateOf(rds[i].timestamp) <= end}

\* readings.aggregate(Sum, Avg, Max, Sum, Count) over the rows M of rds; the
\* average is the pair <<sum, count>> and every aggregate of no row is None,
\* written <<>>.
aggregate(rds, M) ==
    IF M = {}
    THEN [total_energy |-> <<>>, avg_power |-> <<>>, peak_power |-> <<>>,
          total_cost |-> <<>>, count |-> 0]
    ELSE [total_energy |-> <<SumOver([i \in M |-> rds[i].energy_kwh], M)>>,
          avg_power |-> <<SumOver([i \in M |-> rds[i].power_kw], M),
                          Cardinality(M)>>,
          peak_power |-> <<MaxOver([i \in M |-> rds[i].power_kw], M)>>,
          total_cost |-> <<SumOver([i \in M |-> rds[i].cost], M)>>,
          count |-> Cardinality(M)]

\* stats[...] or 0
OrZero(x) == IF x = <<>> THEN 0 ELSE x[1]

\* The defaults of update_or_create as the three-place and two-place columns
\* store them.
Defaults(stats, end) ==
    [end_date |-> end,
     total_energy_kwh |-> OrZero(stats.total_energy),
     average_power_kw |->
        IF stats.avg_power = <<>> THEN 0
        ELSE Quantize(stats.avg_power[1], stats.avg_power[2]),
     peak_power_kw |-> OrZero(stats.peak_power),
     total_cost |-> OrZero(stats.total_cost),
     reading_count |-> stats.count]

KeyRows(rows, u, pt, start) ==
    {i \in 1..Len(rows) :
        /\ rows[i].user = u
        /\ rows[i].period_type = pt
        /\ rows[i].start_date = start}

NewRow(u, pt, start, d) ==
    [user |-> u, period_type |-> pt, start_date |-> start,
     end_date |-> d.end_date,
     total_energy_kwh |-> d.total_energy_kwh,
     average_power_kw |-> d.average_power_kw,
     peak_power_kw |-> d.peak_power_kw,
     total_cost |-> d.total_cost,
     reading_count |-> d.reading_count]

update_or_create_insert(rows, u, pt, start, d) ==
    [rows |-> Append(rows, NewRow(u, pt, start, d)), created |-> TRUE,
     error |-> FALSE]

update_or_create_keep_end(rows, u, pt, start, d) ==
    LET K == KeyRows(rows, u, pt, start)
    IN IF K = {}
       THEN [rows |-> Append(rows, NewRow(u, pt, start, d)), created |-> TRUE,
             error |-> FALSE]
       ELSE LET i == CHOOSE k \in K : TRUE
            IN [rows |-> [rows EXCEPT
                            ![i] = [NewRow(u, pt, start, d) EXCEPT
                                      !.end_date = rows[i].end_date]],
                created |-> FALSE, error |-> FALSE]

\* UsageSummary.objects.update_or_create(user, period_type, start_date,
\* defaults) in one transaction: the row of the key gets the defaults, or a
\* row is inserted when the key has none; get() of a key with several rows
\* raises MultipleObjectsReturned and nothing is written.
update_or_create(rows, u, pt, start, d) ==
    LET K == KeyRows(rows, u, pt, start)
    IN IF K = {}
       THEN [rows |-> Append(rows, NewRow(u, pt, start, d)), created |-> TRUE,
             error |-> FALSE]
       ELSE IF Cardinality(K) = 1
       THEN LET i == CHOOSE k \in K : TRUE
            IN [rows |-> [rows EXCEPT ![i] = NewRow(u, pt, start, d)],
                created |-> FALSE, error |-> FALSE]
       ELSE [rows |-> rows, created |-> FALSE, error |-> TRUE]

generate_unchecked(rows, rds, u, pt, start, end) ==
    LET M == Matching(rds, u, start, end)
        out == update_or_create(rows, u, pt, start,
                                Defaults(aggregate(rds, M), end))
    IN [summaries |-> out.rows,
        status |-> IF out.error THEN 500
                   ELSE IF out.created THEN 201 ELSE 200]

\* UsageSummaryViewSet.generate run to completion: the new summary table and
\* the status of the response.
generate(rows, rds, u, pt, start, end) ==
    LET M == Matching(rds, u, start, end)
    IN IF M = {}
       THEN [summaries |-> rows, status |-> 404]
       ELSE LET out == update_or_create(rows, u, pt, start,
                                        Defaults(aggregate(rds, M), end))
            IN [summaries |-> out.rows,
                status |-> IF out.error THEN 500
                           ELSE IF out.created THEN 201 ELSE 200]

\* POST /summaries/generate/
Generate(u, pt, start, end) ==
    LET out == generate(summaries, readings, u, pt, start, end)
    IN /\ Len(out.summaries) <= MaxSummaries
       /\ summaries' = out.summaries
       /\ resp' = [op |-> "generate", status |-> out.status]
       /\ UNCHANGED <<users, readings, payments, notifications, credit, calls,
                      methods, saves>>

\* --------------------------------------------- generate calls in flight
\* unique_together = ['user', 'period_type', 'start_date']: an insert is
\* refused (IntegrityError) when the key has a row.
unique_together_off(rows, u, pt, start) == TRUE

unique_together(rows, u, pt, start) == KeyRows(rows, u, pt, start) = {}

\* generate, request parsing: the call holds its period_type and dates.
GenBegin(g, q) ==
    /\ calls[g].pc = "idle"
    /\ calls' = [calls EXCEPT ![g].pc = "exists", ![g].req = q]
    /\ UNCHANGED <<users, readings, payments, notifications, summaries, resp,
                   credit, methods, saves>>

\* generate, readings.exists(): 404 when no reading matches.
GenExists(g) ==
    /\ calls[g].pc = "exists"
    /\ LET q == calls[g].req
       IN IF Matching(readings, q[1], q[3], q[4]) = {}
          THEN /\ calls' = [calls EXCEPT ![g].pc = "done", ![g].status = 404]
               /\ resp' = [op |-> "generate", status |-> 404]
          ELSE /\ calls' = [calls EXCEPT ![g].pc = "aggregate"]
               /\ UNCHANGED resp
    /\ UNCHANGED <<users, readings, payments, notifications, summaries, credit,
                   methods, saves>>

\* generate, readings.aggregate(...): the second query on the readings.
\* readAt numbers the aggregate queries in the order the database ran them.
GenAggregate(g) ==
    /\ calls[g].pc = "aggregate"
    /\ LET q == calls[g].req
       IN calls' = [calls EXCEPT
                      ![g].pc = "get",
                      ![g].stats =
                         <<aggregate(readings,
                                     Matching(readings, q[1], q[3], q[4]))>>,
                      ![g].readAt =
                         1 + Cardinality({h \in GenWorkers :
                                             calls[h].readAt > 0})]
    /\ UNCHANGED <<users, readings, payments, notifications, summaries, resp,
                   credit, methods, saves>>

\* update_or_create, select_for_update().get(): a row of the key is updated
\* with the defaults; with no row the call goes on to insert one.
GenGet(g) ==
    /\ calls[g].pc = "get"
    /\ LET q == calls[g].req
           K == KeyRows(summaries, q[1], q[2], q[3])
           d == Defaults(calls[g].stats[1], q[4])
       IN IF K = {}
          THEN /\ calls' = [calls EXCEPT ![g].pc = "insert",
                                         ![g].missed = TRUE]
               /\ UNCHANGED <<summaries, resp>>
          ELSE IF Cardinality(K) = 1
          THEN /\ summaries' =
                     [summaries EXCEPT
                        ![CHOOSE k \in K : TRUE] = NewRow(q[1], q[2], q[3], d)]
               /\ calls' = [calls EXCEPT ![g].pc = "done", ![g].status = 200]
               /\ resp' = [op |-> "generate", status |-> 200]
          ELSE /\ calls' = [calls EXCEPT ![g].pc = "done", ![g].status = 500]
               /\ resp' = [op |-> "generate", status |-> 500]
               /\ UNCHANGED summaries
    /\ UNCHANGED <<users, readings, payments, notifications, credit,
                   methods, saves>>

\* update_or_create, create(): the row is inserted; when the unique
\* constraint refuses it the row of the key is fetched and updated instead.
GenInsert(g) ==
    /\ calls[g].pc = "insert"
    /\ LET q == calls[g].req
           K == KeyRows(summaries, q[1], q[2], q[3])
           d == Defaults(calls[g].stats[1], q[4])
       IN IF unique_together(summaries, q[1], q[2], q[3])
          THEN /\ Len(summaries) < MaxSummaries
               /\ summaries' = Append(summaries, NewRow(q[1], q[2], q[3], d))
               /\ calls' = [calls EXCEPT ![g].pc = "done", ![g].status = 201]
               /\ resp' = [op |-> "generate", status |-> 201]
          ELSE /\ summaries' =
                     [summaries EXCEPT
                        ![CHOOSE k \in K : TRUE] = NewRow(q[1], q[2], q[3], d)]
               /\ calls' = [calls EXCEPT ![g].pc = "done", ![g].status = 200]
               /\ resp' = [op |-> "generate", status |-> 200]
    /\ UNCHANGED <<users, readings, payments, notifications, credit,
                   methods, saves>>

\* ------------------------------------------------------ PaymentMethod
\* The UPDATE of PaymentMethod.save: the rows of the user that are default,
\* the row being saved excluded, lose the flag.
clear_other_defaults(ms, user, id) ==
    [i \in 1..Len(ms) |->
        IF ms[i].user = user /\ ms[i].is_default /\ i # id
        THEN [ms[i] EXCEPT !.is_default = FALSE]
        ELSE ms[i]]

\* POST /payment-methods/ by user u with is_default in the body: the
\* serializer builds the instance for the caller and calls save
MethodCreate(w, u, is_default) ==
    /\ saves[w].pc = "idle"
    /\ Len(methods) < MaxMethods
    /\ saves' = [saves EXCEPT ![w] =
                    [pc |-> "clear", id |-> 0,
                     inst |-> <<[user |-> u, is_default |-> is_default]>>]]
    /\ UNCHANGED <<users, readings, payments, notifications, summaries, resp,
                   credit, calls, methods>>

\* POST /payment-methods/{id}/set_default/ by user u: get_object on the
\* caller's rows, then the flag is set on the loaded instance and save is
\* called
SetDefault(w, u, id) ==
    /\ saves[w].pc = "idle"
    /\ id \in 1..Len(methods)
    /\ IF methods[id].user = u
       THEN /\ saves' = [saves EXCEPT ![w] =
                           [pc |-> "clear", id |-> id,
                            inst |-> <<[methods[id] EXCEPT
                                           !.is_default = TRUE]>>]]
            /\ UNCHANGED resp
       ELSE /\ resp' = [op |-> "set_default", status |-> 404,
                        req |-> <<u, id>>]
            /\ UNCHANGED saves
    /\ UNCHANGED <<users, readings, payments, notifications, summaries,
                   credit, calls, methods>>

\* PaymentMethod.save, first statement: an instance that is default clears
\* the flag of the user's other rows
SaveClear(w) ==
    /\ saves[w].pc = "clear"
    /\ LET inst == saves[w].inst[1]
       IN  methods' = IF inst.is_default
                      THEN clear_other_defaults(methods, inst.user,
                                                saves[w].id)
                      ELSE methods
    /\ saves' = [saves EXCEPT ![w].pc = "write"]
    /\ UNCHANGED <<users, readings, payments, notifications, summaries, resp,
                   credit, calls>>

\* PaymentMethod.save, second statement: super().save() inserts the
\* instance or writes every column of its row
SaveWrite(w) ==
    /\ saves[w].pc = "write"
    /\ LET inst == saves[w].inst[1]
           id == saves[w].id
       IN  /\ methods' = IF id = 0
                         THEN Append(methods, inst)
                         ELSE [methods EXCEPT ![id] = inst]
           /\ resp' = [op |-> IF id = 0 THEN "method_create"
                                        ELSE "set_default",
                       status |-> IF id = 0 THEN 201 ELSE 200,
                       req |-> <<inst.user,
                                 IF id = 0 THEN Len(methods) + 1 ELSE id>>]
    /\ saves' = [saves EXCEPT ![w] = IdleSave]
    /\ UNCHANGED <<users, readings, payments, notifications, summaries,
                   credit, calls>>

\* ------------------------------------------------------------ initial
\* No rows but the users in U, each with the field defaults and a choice of
\* the two alert flags.
InitFor(U) ==
    /\ users \in [U -> {NewUser(a, b) : a, b \in BOOLEAN}]
    /\ readings = <<>>
    /\ payments = <<>>
    /\ notifications = <<>>
    /\ summaries = <<>>
    /\ resp = [op |-> "none", status |-> 0]
    /\ credit = [w \in CreditWorkers |-> IdleCredit]
    /\ calls = [g \in GenWorkers |-> IdleCall]
    /\ methods = <<>>
    /\ saves = [w \in MethodWorkers |-> IdleSave]

Init == InitFor({1})

InitTwo == InitFor(Users)

\* The alert evaluators read neither the timestamp nor the power of a
\* reading: the alert specifications ingest at one timestamp and one power.
AlertTimestamp == CHOOSE ts \in Timestamps : TRUE
AlertPower == CHOOSE p \in Powers : TRUE
\* one energy below the usage threshold and one above it
AlertEnergies == {4999, 5001}

\* ---------------------------------- alerts of one user: readings, payments
Next ==
    \/ \E u \in DOMAIN users, e \in AlertEnergies :
          ReadingCreate(u, AlertTimestamp, e, AlertPower)
    \/ \E id \in 1..MaxReadings, e \in AlertEnergies : ReadingUpdate(id, e)
    \/ \E u \in DOMAIN users, a \in Amounts : PaymentCreate(u, a)
    \/ \E id \in 1..MaxPayments : PaymentUpdate(id)

Spec == Init /\ [][Next]_vars

\* ------------------------------------------- reading alerts of two users
NextReadings ==
    \/ \E u \in DOMAIN users, e \in Energies :
          ReadingCreate(u, AlertTimestamp, e, AlertPower)
    \/ \E id \in 1..MaxReadings, e \in Energies : ReadingUpdate(id, e)

SpecReadings == InitTwo /\ [][NextReadings]_vars

\* ------------------------------------------------- ledger of two users
NextLedger ==
    \/ \E u \in DOMAIN users, a \in Amounts : PaymentCreate(u, a)
    \/ \E u \in DOMAIN users, a \in AdminAmounts : PaymentAdminAdd(u, a)
    \/ \E id \in 1..MaxPayments : PaymentAdminMarkAsSuccess(id)
    \/ \E id \in 1..MaxPayments : PaymentAdminMarkAsFailed(id)
    \/ \E id \in 1..MaxPayments : PaymentCancel(id)
    \/ \E id \in 1..MaxPayments : PaymentUpdate(id)

SpecLedger == InitTwo /\ [][NextLedger]_vars

\* ------------------------------------- readings and summaries, in sequence
InitDefault ==
    /\ users = [u \in Users |-> NewUser(TRUE, TRUE)]
    /\ readings = <<>>
    /\ payments = <<>>
    /\ notifications = <<>>
    /\ summaries = <<>>
    /\ resp = [op |-> "none", status |-> 0]
    /\ credit = [w \in CreditWorkers |-> IdleCredit]
    /\ calls = [g \in GenWorkers |-> IdleCall]
    /\ methods = <<>>
    /\ saves = [w \in MethodWorkers |-> IdleSave]

NextUsage ==
    \/ \E u \in DOMAIN users, ts \in Timestamps, x \in Samples :
          ReadingCreate(u, ts, x[1], x[2])
    \/ \E q \in Requests : Generate(q[1], q[2], q[3], q[4])

SpecUsage == InitDefault /\ [][NextUsage]_vars

\* ------------------------------ concurrent confirmations for one user
NextCredit ==
    \/ \E u \in DOMAIN users, a \in {x \in Amounts : x > 0} :
          PaymentAdminAdd(u, a)
    \/ \E w \in CreditWorkers, u \in DOMAIN users, a \in Amounts :
          ViewAuth(w, u, a)
    \/ \E w \in CreditWorkers : ViewCreate(w)
    \/ \E w \in CreditWorkers : ViewProcessing(w)
    \/ \E w \in CreditWorkers, id \in 1..MaxPayments : AdminLoad(w, id)
    \/ \E w \in CreditWorkers : MarkSave(w)
    \/ \E w \in CreditWorkers : CreditBalance(w)
    \/ \E w \in CreditWorkers : NotifySuccess(w)

SpecCredit == Init /\ [][NextCredit]_vars

\* ------------------- requests in flight on one payment of one user
NextConfirm ==
    \/ \E u \in DOMAIN users : PaymentAdminAdd(u, 100)
    \/ \E id \in 1..MaxPayments : PaymentAdminMarkAsSuccess(id)
    \/ \E w \in CreditWorkers, u \in DOMAIN users, a \in {0, 100} :
          ViewAuth(w, u, a)
    \/ \E w \in CreditWorkers : ViewCreate(w)
    \/ \E w \in CreditWorkers : ViewProcessing(w)
    \/ \E w \in CreditWorkers, id \in 1..MaxPayments : AdminSelect(w, id)
    \/ \E w \in CreditWorkers, id \in 1..MaxPayments :
          AdminSelectFailed(w, id)
    \/ \E w \in CreditWorkers, id \in 1..MaxPayments : CancelLoad(w, id)
    \/ \E w \in CreditWorkers : MarkSave(w)
    \/ \E w \in CreditWorkers : CreditBalance(w)
    \/ \E w \in CreditWorkers : NotifySuccess(w)
    \/ \E w \in CreditWorkers : FailSave(w)
    \/ \E w \in CreditWorkers : NotifyFailed(w)
    \/ \E w \in CreditWorkers : CancelSave(w)

SpecConfirm == Init /\ [][NextConfirm]_vars

\* --------------------------------- concurrent generate calls and ingestion
NextGenerate ==
    \/ \E u \in DOMAIN users, ts \in Timestamps, x \in Samples :
          ReadingCreate(u, ts, x[1], x[2])
    \/ \E g \in GenWorkers, q \in Requests : GenBegin(g, q)
    \/ \E g \in GenWorkers : GenExists(g)
    \/ \E g \in GenWorkers : GenAggregate(g)
    \/ \E g \in GenWorkers : GenGet(g)
    \/ \E g \in GenWorkers : GenInsert(g)

SpecGenerate == InitDefault /\ [][NextGenerate]_vars

\* ------------------------------------------------ readings and charts
\* period tokens of the query string: the three windows, an unknown one and
\* a known one in another case
Periods == {"day", "week", "month", "year", "Day"}

NextChart ==
    \/ \E u \in DOMAIN users, ts \in ChartTimestamps, x \in ChartSamples :
          ReadingCreate(u, ts, x[1], x[2])
    \/ \E u \in DOMAIN users, p \in Periods, now \in Nows :
          ChartData(u, p, now)

SpecChart == InitDefault /\ [][NextChart]_vars

\* ------------------------------------------- alerts read and cleared
NextInbox ==
    \/ \E u \in DOMAIN users :
          ReadingCreate(u, AlertTimestamp, FloatOfCenti(DefaultUsageThreshold),
                        AlertPower)
    \/ \E u \in DOMAIN users, i \in 1..MaxNotifications, now \in ReadTimes :
          MarkRead(u, i, now)
    \/ \E u \in DOMAIN users, now \in ReadTimes : MarkAllRead(u, now)
    \/ \E i \in 1..MaxNotifications : AdminMarkAsUnread(i)
    \/ \E u \in DOMAIN users : ClearAll(u)

SpecInbox == InitDefault /\ [][NextInbox]_vars

\* ------------------------------------ payments cancelled in any status
CancelAmount == 100

NextCancel ==
    \/ \E u \in DOMAIN users : PaymentAdminAdd(u, CancelAmount)
    \/ \E u \in DOMAIN users : PaymentCreate(u, CancelAmount)
    \/ \E id \in 1..MaxPayments, st \in STATUS_CHOICES :
          PaymentAdminChange(id, st)
    \/ \E id \in 1..MaxPayments : PaymentCancel(id)

SpecCancel == Init /\ [][NextCancel]_vars

\* ------------------------------- payment methods saved and made default
NextMethods ==
    \/ \E w \in MethodWorkers, u \in DOMAIN users, d \in BOOLEAN :
          MethodCreate(w, u, d)
    \/ \E w \in MethodWorkers, u \in DOMAIN users, id \in 1..MaxMethods :
          SetDefault(w, u, id)
    \/ \E w \in MethodWorkers : SaveClear(w)
    \/ \E w \in MethodWorkers : SaveWrite(w)

SpecMethods == InitDefault /\ [][NextMethods]_vars

\* --------------------------------- alerts read, unread and updated
NextRead ==
    \/ \E u \in DOMAIN users :
          ReadingCreate(u, AlertTimestamp, FloatOfCenti(DefaultUsageThreshold),
                        AlertPower)
    \/ \E u \in DOMAIN users, i \in 1..MaxNotifications, now \in ReadTimes :
          MarkRead(u, i, now)
    \/ \E u \in DOMAIN users, now \in ReadTimes : MarkAllRead(u, now)
    \/ \E i \in 1..MaxNotifications : AdminMarkAsUnread(i)
    \/ \E u \in DOMAIN users, i \in 1..MaxNotifications, b \in BOOLEAN :
          NotificationUpdate(u, i, b)

SpecRead == InitDefault /\ [][NextRead]_vars

\* ------------------------------------------------- alerts sent by mail
\* The ways a user can be reached: an address and notifications on, an
\* address and notifications off, no address.  The address stands for the
\* user's own; email is unique, so at most one user has none.
Reach == {<<"user@example.com", TRUE>>, <<"user@example.com", FALSE>>,
          <<"", TRUE>>}

InitDeliver ==
    /\ \E r \in {f \in [Users -> Reach] :
                    Cardinality({u \in Users : f[u][1] = ""}) <= 1} :
          users = [u \in Users |->
                      [NewUser(TRUE, TRUE) EXCEPT
                          !.email = r[u][1],
                          !.notifications_enabled = r[u][2]]]
    /\ readings = <<>>
    /\ payments = <<>>
    /\ notifications = <<>>
    /\ summaries = <<>>
    /\ resp = [op |-> "none", status |-> 0]
    /\ credit = [w \in CreditWorkers |-> IdleCredit]
    /\ calls = [g \in GenWorkers |-> IdleCall]
    /\ methods = <<>>
    /\ saves = [w \in MethodWorkers |-> IdleSave]

NextDeliver ==
    \/ \E u \in DOMAIN users :
          ReadingCreate(u, AlertTimestamp, FloatOfCenti(DefaultUsageThreshold),
                        AlertPower)
    \/ \E S \in SUBSET (1..MaxNotifications) :
          \E ok \in [S -> BOOLEAN] : AdminSendEmail(S, ok)

SpecDeliver == InitDeliver /\ [][NextDeliver]_vars

\* ------------------------------------- reading costs under a changing rate
NextCost ==
    \/ \E u \in DOMAIN users, e \in CostEnergies, rate \in Rates :
          ReadingCreateAt(u, AlertTimestamp, e, AlertPower, rate)
    \/ \E id \in 1..MaxReadings, e \in CostEnergies, rate \in Rates :
          ReadingUpdateAt(id, e, rate)

SpecCost == Init /\ [][NextCost]_vars

\* ------------------------------------- payloads of readings and summaries
NextIngest ==
    \/ \E u \in DOMAIN users, ts \in Timestamps, e \in PostEnergies,
          p \in PostPowers : ReadingPost(u, ts, e, p)
    \/ \E q \in Requests : Generate(q[1], q[2], q[3], q[4])

SpecIngest == InitDefault /\ [][NextIngest]_vars

\* ------------------------------------------- two users side by side
\* Each user has set the usage_alert flag of the profile, and the usage
\* thresholds of the two differ.
InitTenants ==
    /\ \E ua \in [Users -> BOOLEAN] :
          users = [u \in Users |->
                      [NewUser(TRUE, ua[u]) EXCEPT
                          !.usage_threshold = UsageThresholds[u]]]
    /\ readings = <<>>
    /\ payments = <<>>
    /\ notifications = <<>>
    /\ summaries = <<>>
    /\ resp = [op |-> "none", status |-> 0]
    /\ credit = [w \in CreditWorkers |-> IdleCredit]
    /\ calls = [g \in GenWorkers |-> IdleCall]
    /\ methods = <<>>
    /\ saves = [w \in MethodWorkers |-> IdleSave]

NextTenants ==
    \/ \E u \in DOMAIN users, e \in AlertEnergies :
          ReadingCreate(u, AlertTimestamp, e, AlertPower)
    \/ \E u \in DOMAIN users : PaymentCreate(u, 100)
    \/ \E u \in DOMAIN users :
          Generate(u, "daily", DateOf(AlertTimestamp), DateOf(AlertTimestamp))

SpecTenants == InitTenants /\ [][NextTenants]_vars

\* ============================================================ properties
\* Rows of the notification table written by the step, by type.
NewOfType(t) ==
    {i \in (Len(notifications) + 1)..Len(notifications') :
        notifications'[i].notification_type = t}

\* The step confirms the payment id: its stored status becomes success.
ConfirmedNow(id) ==
    /\ id \in 1..Len(payments')
    /\ payments'[id].status = "success"
    /\ (id > Len(payments) \/ payments[id].status # "success")

OfUser(u, t) ==
    {i \in 1..Len(notifications) :
        notifications[i].user = u /\ notifications[i].notification_type = t}

\* C2: when a payment is confirmed, a low_balance alert is raised iff the
\* user's low_balance_alert flag is on and the balance after the credit is
\* <= low_balance_threshold, and the alert's payload carries that post-credit
\* balance.
C2_LowBalanceAfterCredit ==
    [][\A id \in 1..MaxPayments :
          ConfirmedNow(id) =>
             LET u == payments'[id].user
                 post == users'[u].balance
                 raised == NewOfType("low_balance")
             IN /\ (raised # {}) <=>
                      (users'[u].low_balance_alert
                       /\ post <= users'[u].low_balance_threshold)
                /\ \A i \in raised :
                      notifications'[i].data.balance = FloatOfCenti(post)]_vars

\* C3: storing a new reading raises a high_usage alert for the reading's
\* user iff that user's usage_alert flag is on and the reading's energy is
\* >= the usage threshold; the alert carries the reading's id, its energy and
\* the threshold; otherwise the notification table is untouched.
C3_HighUsageIff ==
    [][Len(readings') = Len(readings) + 1 =>
          LET id == Len(readings')
              r == readings'[id]
              u == users[r.user]
          IN IF u.usage_alert /\ r.energy_kwh >= 10 * u.usage_threshold
             THEN notifications' =
                     Append(notifications,
                            [user |-> r.user,
                             notification_type |-> "high_usage",
                             data |-> [reading_id |-> id,
                                       energy_kwh |-> r.energy_kwh,
                                       threshold |-> 10 * u.usage_threshold],
                             is_read |-> FALSE, read_at |-> <<>>,
                             email_sent |-> FALSE, sms_sent |-> FALSE,
                             push_sent |-> FALSE])
             ELSE notifications' = notifications]_vars

\* C3 witness: an alert raised at energy = threshold for a user with the flag
\* on, next to a stored reading above the threshold of a user with the flag
\* off and no alert.
C3_Witness ==
    /\ \E i \in 1..Len(notifications) :
          /\ notifications[i].notification_type = "high_usage"
          /\ notifications[i].data.energy_kwh = notifications[i].data.threshold
    /\ \E j \in 1..Len(readings) :
          /\ ~users[readings[j].user].usage_alert
          /\ readings[j].energy_kwh > 10 * users[readings[j].user].usage_threshold
          /\ OfUser(readings[j].user, "high_usage") = {}

\* C4: one stored reading gives rise to at most one high_usage alert and one
\* payment confirmation to at most one low_balance alert, whatever saves
\* follow.
C4_AlertOncePerEvent ==
    /\ \A id \in 1..Len(readings) :
          Cardinality({i \in 1..Len(notifications) :
                          /\ notifications[i].notification_type = "high_usage"
                          /\ notifications[i].data.reading_id = id}) <= 1
    /\ \A u \in DOMAIN users :
          Cardinality(OfUser(u, "low_balance")) <=
             Cardinality({id \in 1..Len(payments) :
                             payments[id].user = u /\ payments[id].completed})

\* C5: the evaluators keep no memory of earlier alerts: a payment confirmation
\* of a user whose flag is on and whose balance is at or below the threshold
\* before and after the credit adds exactly one low_balance alert, and a new
\* reading at or above the threshold of a user whose flag is on adds exactly
\* one high_usage alert, whatever alerts already exist.
C5_NoMemory ==
    [][/\ \A id \in 1..MaxPayments :
             (/\ ConfirmedNow(id)
              /\ users[payments'[id].user].low_balance_alert
              /\ users[payments'[id].user].balance
                    <= users[payments'[id].user].low_balance_threshold
              /\ users'[payments'[id].user].balance
                    <= users[payments'[id].user].low_balance_threshold)
             => Cardinality(NewOfType("low_balance")) = 1
       /\ (/\ Len(readings') = Len(readings) + 1
           /\ users[readings'[Len(readings')].user].usage_alert
           /\ readings'[Len(readings')].energy_kwh >=
                 10 * users[readings'[Len(readings')].user].usage_threshold)
             => Cardinality(NewOfType("high_usage")) = 1]_vars

\* C5 witness: one user holds two confirmed payments, a balance still at the
\* threshold and two low_balance alerts, and one user holds two high_usage
\* alerts.
C5_Witness ==
    /\ \E u \in DOMAIN users :
          /\ Cardinality({id \in 1..Len(payments) :
                 payments[id].user = u /\ payments[id].completed}) = 2
          /\ users[u].balance = users[u].low_balance_threshold
          /\ Cardinality(OfUser(u, "low_balance")) = 2
    /\ \E u \in DOMAIN users : Cardinality(OfUser(u, "high_usage")) = 2

ValueFields(row) ==
    [end_date |-> row.end_date,
     total_energy_kwh |-> row.total_energy_kwh,
     average_power_kw |-> row.average_power_kw,
     peak_power_kw |-> row.peak_power_kw,
     total_cost |-> row.total_cost,
     reading_count |-> row.reading_count]

\* C6: generate is idempotent: for every user, period type and range with a
\* matching reading, a second call on the same readings leaves the summary
\* table exactly as the first call left it, with a single row for the key.
C6_Idempotent ==
    \A u \in DOMAIN users, pt \in PeriodTypes, start \in Dates, end \in Dates :
       Matching(readings, u, start, end) # {} =>
          LET once == generate(summaries, readings, u, pt, start, end)
              twice == generate(once.summaries, readings, u, pt, start, end)
          IN /\ twice.summaries = once.summaries
             /\ Cardinality(KeyRows(twice.summaries, u, pt, start)) = 1

\* C6 witness: the last call updated an existing row, and that row holds the
\* aggregate of the readings now stored.
C6_Witness ==
    /\ resp = [op |-> "generate", status |-> 200]
    /\ \E i \in 1..Len(summaries) :
          LET r == summaries[i]
              M == Matching(readings, r.user, r.start_date, r.end_date)
          IN /\ M # {}
             /\ ValueFields(r) = Defaults(aggregate(readings, M), r.end_date)

\* C8: generate over a range with no reading of the user answers 404 and
\* leaves the summary table unchanged, also when the key has a row.
C8_NoDataUnchanged ==
    \A u \in DOMAIN users, pt \in PeriodTypes, start \in Dates, end \in Dates :
       Matching(readings, u, start, end) = {} =>
          LET out == generate(summaries, readings, u, pt, start, end)
          IN out.status = 404 /\ out.summaries = summaries

\* C8 witness: the last call answered 404 while a stored summary has a key
\* some range of which holds no reading.
C8_Witness ==
    /\ resp = [op |-> "generate", status |-> 404]
    /\ \E i \in 1..Len(summaries), end \in Dates :
          Matching(readings, summaries[i].user, summaries[i].start_date, end) = {}

\* C10: a successful generate leaves one row for the key whose value fields
\* are all the freshly computed ones, answers 201 exactly when the key had no
\* row and 200 otherwise, and leaves the rows of every other key as they
\* were.
C10_Upsert ==
    \A u \in DOMAIN users, pt \in PeriodTypes, start \in Dates, end \in Dates :
       Matching(readings, u, start, end) # {} =>
          LET K == KeyRows(summaries, u, pt, start)
              out == generate(summaries, readings, u, pt, start, end)
              fresh == Defaults(aggregate(readings,
                                          Matching(readings, u, start, end)),
                                end)
          IN /\ out.status = IF K = {} THEN 201 ELSE 200
             /\ Len(out.summaries) = Len(summaries) + (IF K = {} THEN 1 ELSE 0)
             /\ \E i \in 1..Len(out.summaries) :
                   /\ KeyRows(out.summaries, u, pt, start) = {i}
                   /\ ValueFields(out.summaries[i]) = fresh
             /\ \A i \in 1..Len(summaries) :
                   i \notin K => out.summaries[i] = summaries[i]

\* C10 witness: the last call updated a row while a row of another key is
\* stored.
C10_Witness ==
    /\ resp = [op |-> "generate", status |-> 200]
    /\ Len(summaries) = 2
    /\ \E i, j \in 1..Len(summaries) :
          /\ summaries[i].user = summaries[j].user
          /\ summaries[i].period_type # summaries[j].period_type

\* C1: when every confirmation in flight has finished, the stored balance of a
\* user is the initial balance plus the amounts of all of the user's payments
\* whose credit was applied (status success): no credit is lost, whatever the
\* interleaving of the workers' load, add and write steps.
C1_NoLostCredit ==
    (\A w \in CreditWorkers : credit[w].pc \in {"idle", "done"}) =>
       \A u \in DOMAIN users :
          users[u].balance =
             DefaultBalance
             + SumOver([i \in 1..Len(payments) |-> payments[i].amount],
                       {i \in 1..Len(payments) :
                           payments[i].user = u /\ payments[i].status = "success"})

SameKey(q1, q2) == q1[1] = q2[1] /\ q1[2] = q2[2] /\ q1[3] = q2[3]

\* C7: the summary table never holds two rows of one (user, period_type,
\* start_date), whatever the interleaving of generate calls.
C7_UniqueKey ==
    \A i, j \in 1..Len(summaries) :
       (/\ summaries[i].user = summaries[j].user
        /\ summaries[i].period_type = summaries[j].period_type
        /\ summaries[i].start_date = summaries[j].start_date) => i = j

\* C7 witness: two calls of one key both found no row; one inserted it and
\* the other, refused by the constraint, updated it.
C7_Witness ==
    \E g, h \in GenWorkers :
       /\ g # h
       /\ calls[g].pc = "done" /\ calls[h].pc = "done"
       /\ SameKey(calls[g].req, calls[h].req)
       /\ calls[g].missed /\ calls[h].missed
       /\ calls[g].status = 201 /\ calls[h].status = 200

RECURSIVE Tally(_, _, _, _, _)
Tally(rds, u, start, end, n) ==
    IF n = 0
    THEN [energy |-> 0, power |-> 0, peak |-> 0, cost |-> 0, count |-> 0]
    ELSE LET t == Tally(rds, u, start, end, n - 1)
             r == rds[n]
         IN IF r.user = u /\ start <= DateOf(r.timestamp)
               /\ DateOf(r.timestamp) <= end
            THEN [energy |-> t.energy + r.energy_kwh,
                  power |-> t.power + r.power_kw,
                  peak |-> IF r.power_kw > t.peak THEN r.power_kw ELSE t.peak,
                  cost |-> t.cost + r.cost,
                  count |-> t.count + 1]
            ELSE t

\* The row generate leaves for the key of a request.
SummaryOf(u, pt, start, end) ==
    LET out == generate(summaries, readings, u, pt, start, end)
    IN out.summaries[CHOOSE i \in KeyRows(out.summaries, u, pt, start) : TRUE]

\* C11 as stated: for start <= end and a range holding a reading of the user,
\* the computed summary has the sum of energy, the maximum of power, the sum
\* of cost and the number of the user's readings dated in [start, end], and
\* average_power is the mean of their power.
C11_ExactAggregates ==
    \A u \in DOMAIN users, pt \in PeriodTypes, start \in Dates, end \in Dates :
       LET t == Tally(readings, u, start, end, Len(readings))
       IN (start <= end /\ t.count > 0) =>
             LET row == SummaryOf(u, pt, start, end)
             IN /\ row.total_energy_kwh = t.energy
                /\ row.peak_power_kw = t.peak
                /\ row.total_cost = t.cost
                /\ row.reading_count = t.count
                /\ row.average_power_kw * t.count = t.power

\* C11 amended: the same, with average_power the mean of power rounded to
\* the three decimal places of its column, a tie going to the even digit.
C11_Aggregates ==
    \A u \in DOMAIN users, pt \in PeriodTypes, start \in Dates, end \in Dates :
       LET t == Tally(readings, u, start, end, Len(readings))
       IN (start <= end /\ t.count > 0) =>
             LET row == SummaryOf(u, pt, start, end)
                 off == row.average_power_kw * t.count - t.power
             IN /\ row.total_energy_kwh = t.energy
                /\ row.peak_power_kw = t.peak
                /\ row.total_cost = t.cost
                /\ row.reading_count = t.count
                /\ 2 * off <= t.count /\ -2 * off <= t.count
                /\ (2 * off = t.count \/ -2 * off = t.count)
                      => row.average_power_kw % 2 = 0

\* C11 witness: a stored summary holds the tally of two readings of its user
\* whose mean power has a fourth decimal, stored rounded.
C11_Witness ==
    /\ resp.op = "generate" /\ resp.status \in {200, 201}
    /\ \E i \in 1..Len(summaries) :
          LET r == summaries[i]
              t == Tally(readings, r.user, r.start_date, r.end_date,
                         Len(readings))
          IN /\ r.reading_count = 2 /\ t.count = 2
             /\ r.total_energy_kwh = t.energy
             /\ t.power % 2 = 1
             /\ r.average_power_kw = t.power \div 2

\* C12: a credit of an amount <= 0 is refused and changes nothing: no step
\* confirms a payment whose amount is <= 0, and a step that changes a user's
\* balance confirms a payment of that user whose amount is > 0.
C12_NonPositiveRefused ==
    [][/\ \A id \in 1..MaxPayments :
             ConfirmedNow(id) => payments'[id].amount > 0
       /\ \A u \in DOMAIN users :
             users'[u].balance # users[u].balance =>
                \E id \in 1..MaxPayments :
                   /\ ConfirmedNow(id)
                   /\ payments'[id].user = u
                   /\ payments'[id].amount > 0]_vars

\* C13: no step lowers the balance of a user, and a step that changes it
\* confirms a payment of that user.
C13_BalanceMonotonic ==
    [][\A u \in DOMAIN users :
          /\ users'[u].balance >= users[u].balance
          /\ users'[u].balance # users[u].balance =>
                \E id \in 1..MaxPayments :
                   ConfirmedNow(id) /\ payments'[id].user = u]_vars

\* Energy of the readings of user u with a timestamp in [from, to], in
\* thousandths.
EnergyBetween(u, from, to) ==
    LET R == {i \in 1..Len(readings) :
                 /\ readings[i].user = u
                 /\ from <= readings[i].timestamp
                 /\ readings[i].timestamp <= to}
    IN SumOver([i \in R |-> readings[i].energy_kwh], R)

DayLabels ==
    <<"00:00", "01:00", "02:00", "03:00", "04:00", "05:00", "06:00", "07:00",
      "08:00", "09:00", "10:00", "11:00", "12:00", "13:00", "14:00", "15:00",
      "16:00", "17:00", "18:00", "19:00", "20:00", "21:00", "22:00", "23:00">>

\* C14: a chart of window day has the 24 labels 00:00 to 23:00 and 24 values
\* whose sum is the energy of the user's readings timestamped in the 24 hours
\* that end at now.
C14_DaySeries ==
    (resp.op = "chart_data" /\ resp.req[2] = "day") =>
       /\ resp.labels = DayLabels
       /\ Len(resp.data) = 24
       /\ 10 * SumOver(resp.data, 1..24) =
             EnergyBetween(resp.req[1], resp.req[3] - 24, resp.req[3])

\* days of the chart windows
WindowDays(period) == IF period = "week" THEN 7 ELSE 30

\* Energy of the readings of user u dated date, in thousandths.
EnergyOn(u, date) == EnergyBetween(u, 24 * date, 24 * date + 23)

C16_MarkReadIdempotent ==
    [][(resp'.op = "mark_read" /\ resp'.status = 200) =>
          LET i == resp'.req[2]
              now == resp'.req[3]
          IN IF notifications[i].is_read
             THEN notifications' = notifications
             ELSE notifications' =
                     [notifications EXCEPT
                        ![i] = [notifications[i] EXCEPT !.is_read = TRUE,
                                                       !.read_at = <<now>>]]]_vars

\* C16 witness: the last call marked, at time 2, an alert that was read at
\* time 1, and the alert still holds time 1.
C16_Witness ==
    /\ resp.op = "mark_read" /\ resp.status = 200
    /\ resp.req[3] = 2
    /\ notifications[resp.req[2]].is_read
    /\ notifications[resp.req[2]].read_at = <<1>>

\* C17: clearing the read alerts of a user deletes exactly the rows of that
\* user with is_read true and answers their number; every other row, unread
\* or of another user, stays as it was and in its order.
C17_ClearReadFrame ==
    [][resp'.op = "clear_all" =>
          LET u == resp'.req[1]
              Gone == {i \in 1..Len(notifications) :
                          notifications[i].user = u /\ notifications[i].is_read}
              Kept == (1..Len(notifications)) \ Gone
          IN /\ resp'.count = Cardinality(Gone)
             /\ Len(notifications') = Cardinality(Kept)
             /\ \A i \in Kept :
                   notifications'[Cardinality({j \in Kept : j <= i})] =
                      notifications[i]]_vars

\* C17 witness: the last call deleted a read alert of its user and a read
\* alert of another user is still stored.
C17_Witness ==
    /\ resp.op = "clear_all" /\ resp.count = 1
    /\ \E i \in 1..Len(notifications) :
          notifications[i].user # resp.req[1] /\ notifications[i].is_read

\* C18: sending an alert by mail is idempotent: for an alert whose email_sent
\* is true the transport is not invoked and the row is left alone; when
\* email_sent is false and the transport succeeds the flag becomes true; the
\* transport succeeds only for an alert whose flag was false, and a flag that
\* is true stays true in every step.
C18_DeliverIdempotent ==
    [][/\ \A i \in 1..Len(notifications) :
             notifications[i].email_sent =>
                (i <= Len(notifications') /\ notifications'[i].email_sent)
       /\ resp'.op = "admin_send_email" =>
             \A i \in resp'.req :
                /\ notifications[i].email_sent =>
                      (resp'.transport[i] = 0
                       /\ notifications'[i] = notifications[i])
                /\ i \in resp'.delivered =>
                      (~notifications[i].email_sent
                       /\ notifications'[i].email_sent)]_vars

\* C18 witness: the last call selected an alert that was sent before, for
\* which the transport was not invoked, together with an alert it delivered.
C18_Witness ==
    /\ resp.op = "admin_send_email"
    /\ \E i \in resp.req :
          resp.transport[i] = 0 /\ notifications[i].email_sent
    /\ resp.delivered # {}

\* C19 as stated: when the transport fails for an alert, its email_sent stays
\* false, the error reaches the caller, the transport was invoked once for it
\* and the row is as it was.
C19_FailureSurfaced ==
    [][resp'.op = "admin_send_email" =>
          \A i \in resp'.failed :
             /\ ~notifications'[i].email_sent
             /\ resp'.raised
             /\ resp'.transport[i] = 1
             /\ notifications'[i] = notifications[i]]_vars

\* C19 amended: the same, except that the error is caught and printed inside
\* send_email and nothing reaches the caller.
C19_FailureSwallowed ==
    [][resp'.op = "admin_send_email" =>
          \A i \in resp'.failed :
             /\ ~notifications'[i].email_sent
             /\ ~resp'.raised
             /\ resp'.transport[i] = 1
             /\ notifications'[i] = notifications[i]]_vars

\* C19 witness: the transport failed for an alert of the last call; the alert
\* is stored with email_sent false.
C19_Witness ==
    /\ resp.op = "admin_send_email"
    /\ \E i \in resp.failed :
          i <= Len(notifications) /\ ~notifications[i].email_sent

\* C20: the cost of a stored reading never changes: whatever the rate
\* configured at a later save and whatever that save changes, also when the
\* stored cost is 0, the cost stays the one derived at creation.
C20_CostFixed ==
    [][\A id \in 1..Len(readings) :
          readings'[id].cost = readings[id].cost]_vars

\* Rounding of n / d to the nearest integer, a tie going up, for n >= 0.
HalfUp(n, d) == (2 * n + d) \div (2 * d)

\* C21: the cost stored for a newly created reading is energy * rate rounded
\* to two decimal places, a tie going up: 2.5 kWh at 20.00 costs 50.00 and a
\* product of 0.005 costs 0.01.
C21_CostHalfUp ==
    [][resp'.op = "reading_create" =>
          LET e == resp'.req[3]
              rate == resp'.req[5]
          IN readings'[Len(readings')].cost = HalfUp(e * rate, 1000)]_vars

\* C22: a reading with negative energy or negative power is never accepted,
\* a POST /readings/ that is refused writes no reading and raises no alert,
\* and generate over a range that ends before it starts is refused and leaves
\* the summary table as it is.
C22_MalformedRefused ==
    [][/\ (resp'.op = "reading_create" /\ resp'.status = 201) =>
             (resp'.req[3] >= 0 /\ resp'.req[4] >= 0)
       /\ (resp'.op = "reading_create" /\ resp'.status # 201) =>
             (readings' = readings /\ notifications' = notifications)
       /\ \A u \in DOMAIN users, pt \in PeriodTypes, start \in Dates,
             end \in Dates :
             start > end =>
                LET out == generate(summaries, readings, u, pt, start, end)
                IN out.status >= 400 /\ out.summaries = summaries]_vars

\* C23: a chart request with a period token other than day, week and month
\* answers the invalid-period error with no labels and no data, and no table
\* is changed by it.
C23_InvalidWindow ==
    [][(resp'.op = "chart_data"
        /\ resp'.req[2] \notin {"day", "week", "month"}) =>
          /\ resp'.status = 400
          /\ resp'.labels = <<>> /\ resp'.data = <<>>
          /\ UNCHANGED <<users, readings, payments, notifications,
                         summaries>>]_vars

\* C23 witness: the token year was refused for a user who has a reading in
\* the trailing 24 hours, and so was the token Day.
C23_Witness ==
    /\ resp.op = "chart_data" /\ resp.status = 400
    /\ resp.req[2] \in {"year", "Day"}
    /\ EnergyBetween(resp.req[1], resp.req[3] - 24, resp.req[3]) > 0

\* C24: storing a reading of user a leaves every stored reading, every user
\* row, every summary and every stored alert as it was, so nothing of another
\* user changes; the alerts it adds are a's; and it adds a high_usage alert
\* exactly when a's usage_alert flag is on and the energy is at or above a's
\* usage threshold, whatever the other user's flag, threshold and rows are.
C24_TenantIsolation ==
    [][Len(readings') = Len(readings) + 1 =>
          LET r == readings'[Len(readings')]
              a == r.user
          IN /\ \A i \in 1..Len(readings) : readings'[i] = readings[i]
             /\ users' = users
             /\ summaries' = summaries
             /\ payments' = payments
             /\ Len(notifications') >= Len(notifications)
             /\ \A i \in 1..Len(notifications) :
                   notifications'[i] = notifications[i]
             /\ \A i \in (Len(notifications) + 1)..Len(notifications') :
                   notifications'[i].user = a
             /\ (NewOfType("high_usage") # {}) <=>
                   (users[a].usage_alert
                    /\ r.energy_kwh >= 10 * users[a].usage_threshold)]_vars

\* C24 witness: user a's reading raised an alert although it is below the
\* threshold of the other user, who holds a payment, a summary and alerts,
\* and a reading of the other user above a's threshold raised none.
C24_Witness ==
    \E a, b \in DOMAIN users :
       /\ a # b
       /\ resp.op = "reading_create" /\ resp.req[1] = a
       /\ resp.req[3] < 10 * users[b].usage_threshold
       /\ \E i \in OfUser(a, "high_usage") :
             notifications[i].data.reading_id = Len(readings)
       /\ \E j \in 1..Len(readings) :
             /\ readings[j].user = b
             /\ readings[j].energy_kwh >= 10 * users[a].usage_threshold
             /\ OfUser(b, "high_usage") = {}
       /\ \E k \in 1..Len(payments) : payments[k].user = b
       /\ \E k \in 1..Len(summaries) : summaries[k].user = b

\* The payment_success notifications stored for the payment id.
SuccessNotes(id) ==
    {i \in 1..Len(notifications) :
        /\ notifications[i].notification_type = "payment_success"
        /\ notifications[i].data.payment_id = id}

\* C25: each payment credits its user at most once: whatever calls of
\* mark_as_success, mark_as_failed and cancel were applied to it, at most one
\* payment_success notification is stored for it and the balance of a user
\* is at most the initial balance plus the amounts of the user's payments.
C25_CreditAtMostOnce ==
    /\ \A id \in 1..Len(payments) : Cardinality(SuccessNotes(id)) <= 1
    /\ \A u \in DOMAIN users :
          users[u].balance <=
             DefaultBalance
             + SumOver([i \in 1..Len(payments) |-> payments[i].amount],
                       {i \in 1..Len(payments) : payments[i].user = u})

\* C26: when two requests have both run mark_as_success on one payment, each
\* on its own loaded copy, and have finished, the credit was applied by one
\* of them: one payment_success notification is stored for the payment and
\* the balance has risen by its amount.
C26_OneOfTwoCredits ==
    \A w, v \in CreditWorkers :
       (/\ w # v
        /\ credit[w].pc = "done" /\ credit[v].pc = "done"
        /\ credit[w].kind \in {"view", "admin"}
        /\ credit[v].kind \in {"view", "admin"}
        /\ credit[w].pay > 0 /\ credit[w].pay = credit[v].pay)
       => /\ Cardinality(SuccessNotes(credit[w].pay)) = 1
          /\ users[payments[credit[w].pay].user].balance =
                DefaultBalance + payments[credit[w].pay].amount

\* C27: in every state an alert has is_read true exactly when its read_at is
\* set.
C27_ReadIffReadAt ==
    \A i \in 1..Len(notifications) :
       notifications[i].is_read <=> notifications[i].read_at # <<>>

\* C28: in every state each user has at most one payment method whose
\* is_default is true, whatever calls of save and set_default ran and however
\* their statements interleaved.
C28_OneDefault ==
    \A u \in Users :
       Cardinality({i \in 1..Len(methods) :
                       methods[i].user = u /\ methods[i].is_default}) <= 1

\* C29: a cancel request on a payment that is pending or processing answers
\* 200 and changes that payment's status to cancelled and nothing else of
\* it; on a payment in any other status it answers 400 and no payment
\* changes; either way no balance changes and no alert is stored.
C29_CancelRule ==
    [][resp'.op = "payment_cancel" =>
          LET id == resp'.req[1]
          IN  /\ \A u \in DOMAIN users : users'[u].balance = users[u].balance
              /\ notifications' = notifications
              /\ IF payments[id].status \in {"pending", "processing"}
                 THEN /\ resp'.status = 200
                      /\ payments' =
                            [payments EXCEPT ![id].status = "cancelled"]
                 ELSE /\ resp'.status = 400
                      /\ payments' = payments]_vars

\* C29 witness: a cancel was refused on a credited payment of a user whose
\* balance is at or under the low-balance threshold with the alert on, and
\* another payment of the table is cancelled.
C29_Witness ==
    /\ resp.op = "payment_cancel" /\ resp.status = 400
    /\ payments[resp.req[1]].status = "success"
    /\ LET u == users[payments[resp.req[1]].user]
       IN  u.low_balance_alert /\ u.balance <= u.low_balance_threshold
    /\ \E j \in 1..Len(payments) : payments[j].status = "cancelled"

\* The three conditions of send_email for the stored alert i
CanSend(i) ==
    /\ ~notifications[i].email_sent
    /\ users[notifications[i].user].email # ""
    /\ users[notifications[i].user].notifications_enabled

====
